---- MODULE Spec2Model ----
(***************************************************************************)
(* LED-Panel-ESP12F, optimized firmware: the tick loop, the mute button    *)
(* interrupt, the debounced toggle, the WiFi connection rules and the      *)
(* periodic site check, over a wrapping 32-bit millisecond counter.        *)
(* Also: the original firmware (main.cpp), and the timing and              *)
(* classification functions of the unit tests applied to bounded inputs.   *)
(*   Spec      the optimized firmware, a bounded number of ticks           *)
(*   BothSpec  either firmware, a bounded number of ticks                  *)
(*   MainSpec  the original firmware, a bounded number of ticks            *)
(*   UnitSpec  one function applied once                                   *)
(*   LiveSpec  the optimized firmware looping for ever, radio down         *)
(*   AgainSpec the optimized firmware, then loop() called again at once    *)
(*   BootSpec  setup() of the optimized firmware, poll by poll             *)
(*   RecoverSpec  the loop for ever, radio free                            *)
(*   LateSpec  as Spec, with delays of almost a whole cycle of the counter *)
(*   ButtonSpec   the loop for ever, button pressed                        *)
(***************************************************************************)
EXTENDS Integers, Sequences, FiniteSets, TLC

\* ------------------------------------------------------------ constants
\* The millisecond counter is a uint32_t (modulus 2^32).  TLC's integers are
\* 32-bit signed, so the model keeps the counter modulo 2^30: the wrap works
\* the same way and every threshold of the code is far below either modulus.
Modulus            == 1073741824
CHECK_INTERVAL     == 30000
WIFI_TIMEOUT       == 15000
DEBOUNCE_DELAY     == 200
RECONNECT_INTERVAL == 60000
PING_DISPLAY_TIME  == 500
FIRST_CHECK_DELAY  == 5000
RECONNECT_GRACE    == 5000
SERIAL_DELAY       == 100
POLL_DELAY         == 100
ERROR_TONE_TIME    == 1000
LOOP_DELAY         == 10

\* ------------------------------------------------------------ bounds
MaxTicks        == 2
MaxAdvance      == 1
MaxPresses      == 2

\* The counter's phase at power-on: 0, and a phase that puts the 49.7 day
\* wrap a few ticks after boot.
BootTimes == {0, Modulus - 300}

\* Extra time that loop()'s closing delay may take.  The deltas land the next
\* tick one millisecond short of, or exactly on, one of the code's
\* thresholds (DEBOUNCE_DELAY, CHECK_INTERVAL, RECONNECT_INTERVAL).
Deltas == {189, 190, 4989, 4990, 54990}

\* Result codes that http.GET() is made to return.
Codes == {-1, 0, 200, 499, 500}

VARIABLES
    isMuted, siteIsUp, wifiConnected, messageScrolling,
    lastCheckTime, lastReconnect, lastButtonPress,
    muteToggleRequest,
    msgBuffer, buzzer,
    clock, radio,
    pc, startTime,
    tk, presses, pressTimes, consumed, prevCheckTime, prevReconnect,
    lastResult, setupEnd,
    ticks, advances,
    call

state == <<isMuted, siteIsUp, wifiConnected, messageScrolling,
           lastCheckTime, lastReconnect, lastButtonPress>>
ghost == <<tk, presses, pressTimes, consumed, prevCheckTime, prevReconnect,
          lastResult, setupEnd>>
budget == <<ticks, advances>>
vars == <<isMuted, siteIsUp, wifiConnected, messageScrolling,
          lastCheckTime, lastReconnect, lastButtonPress,
          muteToggleRequest, msgBuffer, buzzer, clock, radio, pc, startTime,
          tk, presses, pressTimes, consumed, prevCheckTime, prevReconnect, lastResult, setupEnd,
          ticks, advances, call>>

\* ------------------------------------------------------------ arithmetic
\* Unsigned counter arithmetic: every result is reduced modulo Modulus.
Wrap(x) == x % Modulus

\* now - start in uint32_t.
elapsed(start, now) == Wrap(now - start)

\* ------------------------------------------------------------ buzzer
\* Mutation of playAlertTone: the tone is never turned off.
playAlertTone_NeverOff(enable) == "alert"

\* playAlertTone: tone(BUZZ_PIN, 2000) or noTone(BUZZ_PIN).
playAlertTone(enable) == IF enable THEN "alert" ELSE "off"

\* setupEnd (history): the counter's value when setup() returned.

\* ------------------------------------------------------------ per-tick record
\* What the current tick has done so far (history, not program state).
NoTick == [pending |-> FALSE, toggle |-> "none", sample |-> "none",
           loss |-> FALSE, recon |-> "none", check |-> "none",
           got |-> {}, cut |-> FALSE, late |-> FALSE]

\* No function of the unit tests is being applied.
NoCall == [fn |-> "none"]

\* ------------------------------------------------------------ Init
\* Mutation of Init: wifiConnected starts out true.
Init_Connected ==
    /\ isMuted = FALSE
    /\ siteIsUp = TRUE
    /\ wifiConnected = TRUE
    /\ messageScrolling = FALSE
    /\ lastCheckTime = 0
    /\ lastReconnect = 0
    /\ lastButtonPress = 0
    /\ muteToggleRequest = FALSE
    /\ msgBuffer = ""
    /\ buzzer = "off"
    /\ clock \in BootTimes
    /\ radio = FALSE
    /\ pc = "boot"
    /\ startTime = 0
    /\ tk = NoTick
    /\ presses = 0
    /\ pressTimes = <<>>
    /\ consumed = <<>>
    /\ prevCheckTime = 0
    /\ prevReconnect = 0
    /\ lastResult = "none"
    /\ setupEnd = 0
    /\ ticks = 0
    /\ advances = 0
    /\ call = NoCall

\* The globals at power-on: struct State's member initializers and
\* muteToggleRequest = false.
Init ==
    /\ isMuted = FALSE
    /\ siteIsUp = TRUE
    /\ wifiConnected = FALSE
    /\ messageScrolling = FALSE
    /\ lastCheckTime = 0
    /\ lastReconnect = 0
    /\ lastButtonPress = 0
    /\ muteToggleRequest = FALSE
    /\ msgBuffer = ""
    /\ buzzer = "off"
    /\ clock \in BootTimes
    /\ radio = FALSE
    /\ pc = "boot"
    /\ startTime = 0
    /\ tk = NoTick
    /\ presses = 0
    /\ pressTimes = <<>>
    /\ consumed = <<>>
    /\ prevCheckTime = 0
    /\ prevReconnect = 0
    /\ lastResult = "none"
    /\ setupEnd = 0
    /\ ticks = 0
    /\ advances = 0
    /\ call = NoCall

\* ------------------------------------------------------------ setup()
\* setup() up to connectWiFi()'s first poll: Serial.begin and delay(100),
\* setupPins (buzzer low, interrupt attached), setupDisplay, setupWiFi's
\* "WiFi..." message, WiFi.begin and startTime = millis().
SetupBegin ==
    /\ pc = "boot"
    /\ clock' = Wrap(clock + SERIAL_DELAY)
    /\ buzzer' = "off"
    /\ msgBuffer' = "WiFi..."
    /\ startTime' = Wrap(clock + SERIAL_DELAY)
    /\ pc' = "C_poll"
    /\ UNCHANGED <<state, muteToggleRequest, radio, ghost, budget, call>>

\* Mutation of connectTimedOut: the timeout is compared with > instead of >=.
connectTimedOut_Strict(now) == elapsed(startTime, now) > WIFI_TIMEOUT

\* if (millis() - startTime >= WIFI_TIMEOUT) return false;
connectTimedOut(now) == elapsed(startTime, now) >= WIFI_TIMEOUT

\* connectWiFi(): one turn of the wait loop that neither connects nor times out.
ConnectWait ==
    /\ pc = "C_poll"
    /\ ~radio
    /\ ~connectTimedOut(clock)
    /\ clock' = Wrap(clock + POLL_DELAY)
    /\ UNCHANGED <<state, muteToggleRequest, msgBuffer, buzzer, radio, pc,
                   startTime, ghost, budget, call>>

\* Mutation of FirstCheckTime: the subtraction stops at 0 instead of wrapping.
FirstCheckTime_NoWrap(t) ==
    IF t < CHECK_INTERVAL - FIRST_CHECK_DELAY THEN 0
    ELSE t - CHECK_INTERVAL + FIRST_CHECK_DELAY

\* setup()'s last statement: lastCheckTime = millis() - CHECK_INTERVAL + 5000.
FirstCheckTime(t) == Wrap(Wrap(t - CHECK_INTERVAL) + FIRST_CHECK_DELAY)

\* connectWiFi() returns true; setupWiFi shows "WiFi OK"; setup() finishes.
SetupWiFiOk ==
    /\ pc = "C_poll"
    /\ radio
    /\ wifiConnected' = TRUE
    /\ msgBuffer' = "WiFi OK"
    /\ messageScrolling' = TRUE
    /\ lastCheckTime' = FirstCheckTime(clock)
    /\ setupEnd' = clock
    /\ pc' = "L_animate"
    /\ UNCHANGED <<isMuted, siteIsUp, lastReconnect, lastButtonPress,
                   muteToggleRequest, buzzer, clock, radio, startTime,
                   tk, presses, pressTimes, consumed,
                   prevCheckTime, prevReconnect, lastResult, budget, call>>

\* connectWiFi() returns false at the timeout; setupWiFi shows "WiFi Err"
\* and starts the alert tone.
SetupWiFiFail ==
    /\ pc = "C_poll"
    /\ ~radio
    /\ connectTimedOut(clock)
    /\ wifiConnected' = FALSE
    /\ msgBuffer' = "WiFi Err"
    /\ buzzer' = playAlertTone(TRUE)
    /\ pc' = "U_alert"
    /\ UNCHANGED <<isMuted, siteIsUp, messageScrolling, lastCheckTime,
                   lastReconnect, lastButtonPress, muteToggleRequest, clock,
                   radio, startTime, ghost, budget, call>>

\* Mutation of SetupAlertEnd: the tone is left on when setup() finishes.
SetupAlertEnd_KeepTone ==
    /\ pc = "U_alert"
    /\ clock' = Wrap(clock + ERROR_TONE_TIME)
    /\ messageScrolling' = TRUE
    /\ lastCheckTime' = FirstCheckTime(Wrap(clock + ERROR_TONE_TIME))
    /\ setupEnd' = Wrap(clock + ERROR_TONE_TIME)
    /\ pc' = "L_animate"
    /\ UNCHANGED <<isMuted, siteIsUp, wifiConnected, lastReconnect,
                   lastButtonPress, muteToggleRequest, msgBuffer, buzzer,
                   radio, startTime, tk, presses, pressTimes, consumed,
                   prevCheckTime, prevReconnect, lastResult,
                   budget, call>>

\* setupWiFi after the failed connect: delay(1000), tone off; setup() finishes.
SetupAlertEnd ==
    /\ pc = "U_alert"
    /\ clock' = Wrap(clock + ERROR_TONE_TIME)
    /\ buzzer' = playAlertTone(FALSE)
    /\ messageScrolling' = TRUE
    /\ lastCheckTime' = FirstCheckTime(Wrap(clock + ERROR_TONE_TIME))
    /\ setupEnd' = Wrap(clock + ERROR_TONE_TIME)
    /\ pc' = "L_animate"
    /\ UNCHANGED <<isMuted, siteIsUp, wifiConnected, lastReconnect,
                   lastButtonPress, muteToggleRequest, msgBuffer, radio,
                   startTime, tk, presses, pressTimes, consumed,
                   prevCheckTime, prevReconnect, lastResult,
                   budget, call>>

\* ------------------------------------------------------------ loop()
\* Mutation of LoopOrder: the button is handled after the site check.
LoopOrder_ButtonLast ==
    <<"L_animate", "W_check", "L_check", "L_button", "L_delay">>

\* The order of loop()'s sections; each section hands over to the next one.
LoopOrder == <<"L_animate", "L_button", "W_check", "L_check", "L_delay">>

After(p) == LoopOrder[(CHOOSE i \in 1..Len(LoopOrder) : LoopOrder[i] = p) + 1]

\* display.displayAnimate() and the clearing of a finished transient message.
\* The tick starts here.
LoopAnimate ==
    /\ pc = "L_animate"
    /\ ticks < MaxTicks
    /\ ticks' = ticks + 1
    /\ \E done \in BOOLEAN :
          messageScrolling' = IF done /\ messageScrolling THEN FALSE
                              ELSE messageScrolling
    /\ tk' = [NoTick EXCEPT !.pending = muteToggleRequest]
    /\ pc' = After("L_animate")
    /\ UNCHANGED <<isMuted, siteIsUp, wifiConnected, lastCheckTime,
                   lastReconnect, lastButtonPress, muteToggleRequest,
                   msgBuffer, buzzer, clock, radio, startTime, presses,
                   pressTimes, consumed, prevCheckTime, lastResult, setupEnd, prevReconnect,
                   advances, call>>

\* Mutation of LoopButton: a pending request is handled only while unmuted.
LoopButton_WhileUnmuted ==
    /\ pc = "L_button"
    /\ pc' = IF muteToggleRequest /\ ~isMuted THEN "H_toggle"
             ELSE After("L_button")
    /\ UNCHANGED <<state, muteToggleRequest, msgBuffer, buzzer, clock, radio,
                   startTime, ghost, budget, call>>

\* if (muteToggleRequest) handleMuteToggle();
LoopButton ==
    /\ pc = "L_button"
    /\ pc' = IF muteToggleRequest THEN "H_toggle" ELSE After("L_button")
    /\ UNCHANGED <<state, muteToggleRequest, msgBuffer, buzzer, clock, radio,
                   startTime, ghost, budget, call>>

\* ------------------------------------------------------------ handleMuteToggle()
\* Mutation of isDebounced: the window is compared with > instead of >=.
isDebounced_Strict(now) == elapsed(lastButtonPress, now) > DEBOUNCE_DELAY

\* The debounce test of handleMuteToggle, on its own reading of millis().
isDebounced(now) == elapsed(lastButtonPress, now) >= DEBOUNCE_DELAY

\* History keeps the two latest entries of a log.
Latest(log, e) == IF Len(log) < 2 THEN Append(log, e) ELSE <<log[2], e>>

\* History: one entry per consumption of the request flag: when, whether the
\* toggle was accepted, and how many interrupt edges had been raised by then.
Consume(acc) == Latest(consumed, [at |-> clock, acc |-> acc, upto |-> presses])

\* Mutation of DebounceReject: the rejected press is stamped as well.
DebounceReject_Stamp ==
    /\ ~isDebounced(clock)
    /\ muteToggleRequest' = FALSE
    /\ lastButtonPress' = clock
    /\ tk' = [tk EXCEPT !.toggle = "rejected"]
    /\ consumed' = Consume(FALSE)
    /\ UNCHANGED <<isMuted, siteIsUp, wifiConnected, messageScrolling,
                   lastCheckTime, lastReconnect, msgBuffer, buzzer>>

\* Inside the debounce window: clear the flag and return.
DebounceReject ==
    /\ ~isDebounced(clock)
    /\ muteToggleRequest' = FALSE
    /\ tk' = [tk EXCEPT !.toggle = "rejected"]
    /\ consumed' = Consume(FALSE)
    /\ UNCHANGED <<state, msgBuffer, buzzer>>

\* Mutation of ToggleAccept: lastButtonPress is not updated.
ToggleAccept_NoStamp ==
    /\ isDebounced(clock)
    /\ muteToggleRequest' = FALSE
    /\ isMuted' = ~isMuted
    /\ buzzer' = IF ~isMuted THEN "off" ELSE "confirm"
    /\ msgBuffer' = IF ~isMuted THEN "Muted" ELSE "Sound On"
    /\ messageScrolling' = TRUE
    /\ tk' = [tk EXCEPT !.toggle = IF ~isMuted THEN "muted" ELSE "unmuted",
                        !.cut = ~isMuted /\ buzzer = "alert"]
    /\ consumed' = Consume(TRUE)
    /\ UNCHANGED <<siteIsUp, wifiConnected, lastCheckTime, lastReconnect,
                   lastButtonPress>>

\* Mutation of ToggleAccept: the request flag is not cleared.
ToggleAccept_KeepFlag ==
    /\ isDebounced(clock)
    /\ lastButtonPress' = clock
    /\ isMuted' = ~isMuted
    /\ buzzer' = IF ~isMuted THEN "off" ELSE "confirm"
    /\ msgBuffer' = IF ~isMuted THEN "Muted" ELSE "Sound On"
    /\ messageScrolling' = TRUE
    /\ tk' = [tk EXCEPT !.toggle = IF ~isMuted THEN "muted" ELSE "unmuted",
                        !.cut = ~isMuted /\ buzzer = "alert"]
    /\ consumed' = Consume(TRUE)
    /\ UNCHANGED <<siteIsUp, wifiConnected, lastCheckTime, lastReconnect,
                   muteToggleRequest>>

\* Mutation of ToggleAccept: unmuting starts the alert tone again when the
\* site is recorded as down or the WiFi as disconnected.
ToggleAccept_Realert ==
    /\ isDebounced(clock)
    /\ lastButtonPress' = clock
    /\ muteToggleRequest' = FALSE
    /\ isMuted' = ~isMuted
    /\ buzzer' = IF ~isMuted THEN "off"
                 ELSE IF ~siteIsUp \/ ~wifiConnected THEN "alert"
                 ELSE "confirm"
    /\ msgBuffer' = IF ~isMuted THEN "Muted" ELSE "Sound On"
    /\ messageScrolling' = TRUE
    /\ tk' = [tk EXCEPT !.toggle = IF ~isMuted THEN "muted" ELSE "unmuted",
                        !.cut = ~isMuted /\ buzzer = "alert"]
    /\ consumed' = Consume(TRUE)
    /\ UNCHANGED <<siteIsUp, wifiConnected, lastCheckTime, lastReconnect>>

\* Outside the window: stamp the press, clear the flag, flip the mute state,
\* silence the buzzer when muting, confirmation beep when unmuting, and show
\* the mute status.
ToggleAccept ==
    /\ isDebounced(clock)
    /\ lastButtonPress' = clock
    /\ muteToggleRequest' = FALSE
    /\ isMuted' = ~isMuted
    /\ buzzer' = IF ~isMuted THEN "off" ELSE "confirm"
    /\ msgBuffer' = IF ~isMuted THEN "Muted" ELSE "Sound On"
    /\ messageScrolling' = TRUE
    /\ tk' = [tk EXCEPT !.toggle = IF ~isMuted THEN "muted" ELSE "unmuted",
                        !.cut = ~isMuted /\ buzzer = "alert"]
    /\ consumed' = Consume(TRUE)
    /\ UNCHANGED <<siteIsUp, wifiConnected, lastCheckTime, lastReconnect>>

HandleMuteToggle ==
    /\ pc = "H_toggle"
    /\ (DebounceReject \/ ToggleAccept)
    /\ pc' = After("L_button")
    /\ UNCHANGED <<clock, radio, startTime, presses, pressTimes,
                   prevCheckTime, lastResult, setupEnd, prevReconnect, budget, call>>

\* ------------------------------------------------------------ checkWiFiConnection()
\* Mutation of connectionLost: level-triggered instead of edge-triggered.
connectionLost_Level(connected) == ~connected

\* if (!connected && state.wifiConnected)
connectionLost(connected) == ~connected /\ wifiConnected

\* Mutation of reconnectDue: the interval since the last attempt is not tested.
reconnectDue_Unthrottled(connected, now) == ~connected

\* Mutation of reconnectDue: an attempt is only made right after a loss.
reconnectDue_AfterLossOnly(connected, now) ==
    /\ ~connected
    /\ wifiConnected
    /\ elapsed(lastReconnect, now) >= RECONNECT_INTERVAL

\* if (!connected) { if (now - state.lastReconnect >= RECONNECT_INTERVAL) ...
reconnectDue(connected, now) ==
    ~connected /\ elapsed(lastReconnect, now) >= RECONNECT_INTERVAL

\* checkWiFiConnection() up to WiFi.reconnect(): the status sample, the loss
\* rule and the decision to attempt a reconnect.
CheckWiFi ==
    /\ pc = "W_check"
    /\ LET connected == radio
           lost      == connectionLost(connected)
           attempt   == reconnectDue(connected, clock)
       IN /\ wifiConnected' = IF lost THEN FALSE ELSE wifiConnected
          /\ buzzer' = IF lost THEN playAlertTone(~isMuted) ELSE buzzer
          /\ lastReconnect' = IF attempt THEN clock ELSE lastReconnect
          /\ prevReconnect' = IF attempt THEN lastReconnect ELSE prevReconnect
          /\ msgBuffer' = IF attempt THEN "Reconn..." ELSE msgBuffer
          /\ pc' = IF attempt THEN "W_delay" ELSE After("W_check")
          /\ tk' = [tk EXCEPT !.sample = IF connected THEN "up" ELSE "down",
                              !.loss = lost,
                              !.recon = IF attempt THEN "started" ELSE "none"]
    /\ UNCHANGED <<isMuted, siteIsUp, messageScrolling, lastCheckTime,
                   lastButtonPress, muteToggleRequest, clock, radio,
                   startTime, presses, pressTimes, consumed, prevCheckTime, lastResult, setupEnd,
                   budget, call>>

\* Mutation of ReconnectWait: the alert tone is not silenced on reconnection.
ReconnectWait_KeepTone ==
    /\ pc = "W_delay"
    /\ clock' = Wrap(clock + RECONNECT_GRACE)
    /\ wifiConnected' = IF radio THEN TRUE ELSE wifiConnected
    /\ tk' = [tk EXCEPT !.recon = IF radio THEN "ok" ELSE "failed"]
    /\ pc' = After("W_check")
    /\ UNCHANGED <<isMuted, siteIsUp, messageScrolling, lastCheckTime,
                   lastReconnect, lastButtonPress, muteToggleRequest,
                   msgBuffer, buzzer, radio, startTime, presses, pressTimes,
                   consumed, prevCheckTime, lastResult, setupEnd, prevReconnect, budget, call>>

\* Mutation of ReconnectWait: the attempt is taken to have worked, without
\* the status re-sample.
ReconnectWait_Optimistic ==
    /\ pc = "W_delay"
    /\ clock' = Wrap(clock + RECONNECT_GRACE)
    /\ wifiConnected' = TRUE
    /\ buzzer' = playAlertTone(FALSE)
    /\ tk' = [tk EXCEPT !.recon = IF radio THEN "ok" ELSE "failed"]
    /\ pc' = After("W_check")
    /\ UNCHANGED <<isMuted, siteIsUp, messageScrolling, lastCheckTime,
                   lastReconnect, lastButtonPress, muteToggleRequest,
                   msgBuffer, radio, startTime, presses, pressTimes,
                   consumed, prevCheckTime, lastResult, setupEnd, prevReconnect, budget, call>>

\* The rest of the reconnect attempt: delay(5000), the status re-sample and
\* the transition back to connected.
ReconnectWait ==
    /\ pc = "W_delay"
    /\ clock' = Wrap(clock + RECONNECT_GRACE)
    /\ wifiConnected' = IF radio THEN TRUE ELSE wifiConnected
    /\ buzzer' = IF radio THEN playAlertTone(FALSE) ELSE buzzer
    /\ tk' = [tk EXCEPT !.recon = IF radio THEN "ok" ELSE "failed"]
    /\ pc' = After("W_check")
    /\ UNCHANGED <<isMuted, siteIsUp, messageScrolling, lastCheckTime,
                   lastReconnect, lastButtonPress, muteToggleRequest,
                   msgBuffer, radio, startTime, presses, pressTimes,
                   consumed, prevCheckTime, lastResult, setupEnd, prevReconnect, budget, call>>

\* ------------------------------------------------------------ site check
\* Mutation of shouldCheckSite: a site that is down is checked again at once.
shouldCheckSite_RetryDown(now) ==
    wifiConnected /\ (~siteIsUp \/
                        elapsed(lastCheckTime, now) >= CHECK_INTERVAL)

\* Mutation of shouldCheckSite: the connectivity test is missing.
shouldCheckSite_NoWiFi(now) == elapsed(lastCheckTime, now) >= CHECK_INTERVAL

\* Mutation of shouldCheckSite: the interval is compared with > instead of >=.
shouldCheckSite_Strict(now) ==
    wifiConnected /\ elapsed(lastCheckTime, now) > CHECK_INTERVAL

\* if (state.wifiConnected && (now - state.lastCheckTime >= CHECK_INTERVAL))
shouldCheckSite(now) ==
    wifiConnected /\ elapsed(lastCheckTime, now) >= CHECK_INTERVAL

\* What the HTTP client can answer: http.begin() fails, or http.GET()
\* returns a code.
Outcomes == {[begun |-> FALSE, code |-> 0]}
            \cup {[begun |-> TRUE, code |-> c] : c \in Codes}

\* History: whether a site check ended in a transport error (http.begin()
\* failed or http.GET() returned a negative code) or in a status code.
Kind(o) == IF ~o.begun \/ o.code < 0 THEN "transport" ELSE "http"

\* Mutation of checkSiteStatus: the code 0 is taken for an error.
checkSiteStatus_NonPositive(o) ==
    IF ~o.begun THEN FALSE
    ELSE IF o.code <= 0 THEN FALSE
    ELSE o.code < 500

\* checkSiteStatus(): the verdict for an outcome of the HTTP client.
checkSiteStatus(o) ==
    IF ~o.begun THEN FALSE
    ELSE IF o.code < 0 THEN FALSE
    ELSE o.code < 500

\* Mutation of LoopCheck: lastCheckTime is not set when the check starts.
LoopCheck_NoStamp ==
    /\ pc = "L_check"
    /\ IF shouldCheckSite(clock)
       THEN /\ msgBuffer' = "Pinging"
            /\ pc' = "S_ping"
       ELSE /\ pc' = After("L_check")
            /\ UNCHANGED msgBuffer
    /\ UNCHANGED <<isMuted, siteIsUp, wifiConnected, messageScrolling,
                   lastCheckTime, lastReconnect, lastButtonPress,
                   muteToggleRequest, buzzer, clock, radio, startTime, ghost,
                   budget, call>>

\* The interval test of loop(); when it passes, lastCheckTime = now and the
\* "Pinging" indicator is shown.
LoopCheck ==
    /\ pc = "L_check"
    /\ IF shouldCheckSite(clock)
       THEN /\ lastCheckTime' = clock
            /\ prevCheckTime' = lastCheckTime
            /\ msgBuffer' = "Pinging"
            /\ pc' = "S_ping"
       ELSE /\ pc' = After("L_check")
            /\ UNCHANGED <<lastCheckTime, prevCheckTime, msgBuffer>>
    /\ UNCHANGED <<isMuted, siteIsUp, wifiConnected, messageScrolling,
                   lastReconnect, lastButtonPress, muteToggleRequest, buzzer,
                   clock, radio, startTime, tk, presses, pressTimes,
                   consumed, prevReconnect, lastResult, setupEnd, budget, call>>

\* Mutation of SiteCheck: a verdict of up leaves the buzzer as it was.
SiteCheck_KeepTone ==
    /\ pc = "S_ping"
    /\ clock' = Wrap(clock + PING_DISPLAY_TIME)
    /\ \E o \in Outcomes :
          LET isUp == checkSiteStatus(o)
          IN /\ siteIsUp' = isUp
             /\ msgBuffer' = IF isUp THEN "All Good!" ELSE "SITE DOWN!"
             /\ buzzer' = IF ~isUp THEN playAlertTone(~isMuted)
                          ELSE buzzer
             /\ tk' = [tk EXCEPT !.check = IF isUp THEN "up" ELSE "down",
                                 !.got = {o}]
             /\ lastResult' = Kind(o)
    /\ messageScrolling' = TRUE
    /\ pc' = After("L_check")
    /\ UNCHANGED <<isMuted, wifiConnected, lastCheckTime, lastReconnect,
                   lastButtonPress, muteToggleRequest, radio, startTime,
                   presses, pressTimes, consumed, prevCheckTime,
                   prevReconnect, setupEnd, budget, call>>

\* delay(PING_DISPLAY_TIME), the blocking request, and the handling of its
\* verdict: siteIsUp, the status message and the alert tone.
SiteCheck ==
    /\ pc = "S_ping"
    /\ clock' = Wrap(clock + PING_DISPLAY_TIME)
    /\ \E o \in Outcomes :
          LET isUp == checkSiteStatus(o)
          IN /\ siteIsUp' = isUp
             /\ msgBuffer' = IF isUp THEN "All Good!" ELSE "SITE DOWN!"
             /\ buzzer' = IF ~isUp THEN playAlertTone(~isMuted)
                          ELSE playAlertTone(FALSE)
             /\ tk' = [tk EXCEPT !.check = IF isUp THEN "up" ELSE "down",
                                 !.got = {o}]
             /\ lastResult' = Kind(o)
    /\ messageScrolling' = TRUE
    /\ pc' = After("L_check")
    /\ UNCHANGED <<isMuted, wifiConnected, lastCheckTime, lastReconnect,
                   lastButtonPress, muteToggleRequest, radio, startTime,
                   presses, pressTimes, consumed, prevCheckTime,
                   prevReconnect, setupEnd, budget, call>>

\* delay(10) at the end of loop(); loop() is then called again.
LoopDelay ==
    /\ pc = "L_delay"
    /\ clock' = Wrap(clock + LOOP_DELAY)
    /\ pc' = "L_animate"
    /\ UNCHANGED <<state, muteToggleRequest, msgBuffer, buzzer, radio,
                   startTime, ghost, budget, call>>

\* ------------------------------------------------------------ where the environment acts
\* During connectWiFi()'s wait the radio changes right after WiFi.begin or
\* at the turn of the timeout, not in the turns in between.
BootQuiet ==
    /\ pc = "C_poll"
    /\ elapsed(startTime, clock) > 0
    /\ elapsed(startTime, clock) < WIFI_TIMEOUT

\* The places where the program waits: the connect loop, the reconnect
\* grace delay, the blocking request and loop()'s closing delay.
Blocking == {"C_poll", "W_delay", "S_ping", "L_delay"}

\* ------------------------------------------------------------ interrupt
\* Mutation of onMuteButtonPress: the interrupt flips the mute state itself.
onMuteButtonPress_Toggles ==
    /\ pc \in Blocking \cup {"H_toggle"}
    /\ pc = "C_poll" => clock = startTime
    /\ presses < MaxPresses
    /\ muteToggleRequest' = TRUE
    /\ isMuted' = ~isMuted
    /\ presses' = presses + 1
    /\ pressTimes' = Latest(pressTimes, clock)
    /\ UNCHANGED <<siteIsUp, wifiConnected, messageScrolling, lastCheckTime,
                   lastReconnect, lastButtonPress, msgBuffer, buzzer, clock,
                   radio, pc, startTime, tk, consumed, prevCheckTime, lastResult, setupEnd,
                   prevReconnect, budget, call>>

\* The falling-edge interrupt on MUTE_PIN, attached by setupPins.  It fires
\* while the program waits, or between loop()'s test of the flag and
\* handleMuteToggle's clearing of it; at any other point its effect is that
\* of firing at the next wait.
onMuteButtonPress ==
    /\ pc \in Blocking \cup {"H_toggle"}
    /\ pc = "C_poll" => clock = startTime
    /\ presses < MaxPresses
    /\ muteToggleRequest' = TRUE
    /\ presses' = presses + 1
    /\ pressTimes' = Latest(pressTimes, clock)
    /\ UNCHANGED <<state, msgBuffer, buzzer, clock, radio, pc, startTime, tk,
                   consumed, prevCheckTime, lastResult, setupEnd, prevReconnect, budget, call>>

\* ------------------------------------------------------------ environment
\* delay(10) lasts at least 10 ms: extra time passes in loop()'s closing delay.
Advance ==
    /\ pc = "L_delay"
    /\ advances < MaxAdvance
    /\ advances' = advances + 1
    /\ \E d \in Deltas : clock' = Wrap(clock + d)
    /\ tk' = [tk EXCEPT !.late = TRUE]
    /\ UNCHANGED <<state, muteToggleRequest, msgBuffer, buzzer, radio, pc,
                   startTime, presses, pressTimes, consumed, prevCheckTime,
                   prevReconnect, lastResult, setupEnd, ticks, call>>

\* WiFi.status() starts or stops reporting WL_CONNECTED; the change is seen at
\* the next place the program samples the status.
RadioChange ==
    /\ pc \in {"C_poll", "W_check", "W_delay"}
    /\ ~BootQuiet
    /\ radio' = ~radio
    /\ UNCHANGED <<state, muteToggleRequest, msgBuffer, buzzer, clock, pc,
                   startTime, ghost, budget, call>>

\* The 100 ms confirmation beep of tone(BUZZ_PIN, 1000, 100) runs out.
ToneExpire ==
    /\ pc = "L_delay"
    /\ buzzer = "confirm"
    /\ buzzer' = "off"
    /\ UNCHANGED <<state, muteToggleRequest, msgBuffer, clock, radio, pc,
                   startTime, ghost, budget, call>>

Next ==
    \/ SetupBegin
    \/ ConnectWait
    \/ SetupWiFiOk
    \/ SetupWiFiFail
    \/ SetupAlertEnd
    \/ LoopAnimate
    \/ LoopButton
    \/ HandleMuteToggle
    \/ CheckWiFi
    \/ ReconnectWait
    \/ LoopCheck
    \/ SiteCheck
    \/ LoopDelay
    \/ onMuteButtonPress
    \/ Advance
    \/ RadioChange
    \/ ToneExpire

Spec == Init /\ [][Next]_vars

\* ------------------------------------------------------------ 32-bit values
\* The unit tests of the timing functions use the whole range of uint32_t.
\* A 32-bit value is kept as its two 16-bit halves <<high, low>>, and the
\* arithmetic below is that of uint32_t exactly (modulus 2^32).
Half == 65536

\* The 32-bit value of a number 0 <= n < 2^31.
U32(n) == <<n \div Half, n % Half>>

\* 0xFFFFFFFF
Max32 == <<Half - 1, Half - 1>>

\* a + b in uint32_t.
Add32(a, b) ==
    LET low == a[2] + b[2]
    IN <<(a[1] + b[1] + (low \div Half)) % Half, low % Half>>

\* a - b in uint32_t.
Sub32(a, b) ==
    LET borrow == IF a[2] < b[2] THEN 1 ELSE 0
    IN <<(a[1] - b[1] - borrow) % Half, (a[2] - b[2]) % Half>>

\* a >= b on uint32_t.
Ge32(a, b) == a[1] > b[1] \/ (a[1] = b[1] /\ a[2] >= b[2])

\* a < b on uint32_t.
Lt32(a, b) == ~Ge32(a, b)

\* ------------------------------------------------------------ timing functions
\* Mutation of elapsedTime: the difference is taken without the wraparound
\* (zero when the counter has wrapped).
elapsedTime_NoWrap(start, current) ==
    IF Lt32(current, start) THEN U32(0) ELSE Sub32(current, start)

\* uint32_t elapsedTime(startTime, currentTime) { return currentTime - startTime; }
elapsedTime(start, current) == Sub32(current, start)

\* Mutation of intervalPassed: the interval is compared with > instead of >=.
intervalPassed_Strict(lastTime, now, interval) ==
    ~Ge32(interval, elapsedTime(lastTime, now))

\* bool intervalPassed(lastTime, interval), with now the value of mock_millis().
intervalPassed(lastTime, now, interval) ==
    Ge32(elapsedTime(lastTime, now), interval)

\* ------------------------------------------------------------ classification
\* bool isSiteUp(int httpCode) of the HTTP code tests.
isSiteUp(httpCode) ==
    IF httpCode < 0 THEN FALSE ELSE httpCode < 500

\* Mutation of getStatusDescription: the boundaries are compared with <=.
getStatusDescription_Inclusive(httpCode) ==
    IF httpCode <= 0 THEN "Connection Error"
    ELSE IF httpCode <= 200 THEN "Informational"
    ELSE IF httpCode <= 300 THEN "Success"
    ELSE IF httpCode <= 400 THEN "Redirect"
    ELSE IF httpCode <= 500 THEN "Client Error"
    ELSE "Server Error"

\* const char* getStatusDescription(int httpCode): the first test that passes
\* gives the label.
getStatusDescription(httpCode) ==
    IF httpCode < 0 THEN "Connection Error"
    ELSE IF httpCode < 200 THEN "Informational"
    ELSE IF httpCode < 300 THEN "Success"
    ELSE IF httpCode < 400 THEN "Redirect"
    ELSE IF httpCode < 500 THEN "Client Error"
    ELSE "Server Error"

\* main.cpp's checkSite(): the verdict for an outcome of the HTTP client.
checkSite(o) ==
    IF ~o.begun THEN FALSE
    ELSE IF o.code <= 0 THEN FALSE
    ELSE o.code < 500

\* ------------------------------------------------------------ the functions applied
\* Bounds of the inputs the functions are applied to.
Near    == 2
MaxCode == 600

\* Timestamps: next to 0, next to 0xFFFFFFFF, and the ones of the tests.
Stamps ==
    {U32(k) : k \in 0..Near}
    \cup {Sub32(Max32, U32(k)) : k \in 0..Near}
    \cup {U32(1000), U32(2147483647), Sub32(Max32, U32(100)),
          Sub32(Max32, U32(10000)), Sub32(Max32, U32(15000))}

\* The intervals of the firmware.
Intervals == {U32(DEBOUNCE_DELAY), U32(WIFI_TIMEOUT), U32(CHECK_INTERVAL),
              U32(RECONNECT_INTERVAL)}

\* True elapsed times: next to 0, next to 2^32, and one short of, on and
\* one past every interval.
Spans ==
    {U32(k) : k \in 0..Near}
    \cup {Sub32(Max32, U32(k)) : k \in 0..Near}
    \cup {Add32(Sub32(i, U32(1)), U32(k)) : i \in Intervals, k \in 0..2}
    \cup {U32(2147483647)}

\* Result codes: every code up to MaxCode either side of 0, and the ends of
\* the range of int.
TestCodes == (-MaxCode)..MaxCode \cup {-2147483647 - 1, 2147483647}

\* Everything of the firmware, which stands still while a function is applied.
machine == <<state, muteToggleRequest, msgBuffer, buzzer, clock, radio, pc,
             startTime, ghost, budget>>

\* One function is applied once, to inputs drawn from the sets above.
UnitInit ==
    /\ isMuted = FALSE
    /\ siteIsUp = TRUE
    /\ wifiConnected = FALSE
    /\ messageScrolling = FALSE
    /\ lastCheckTime = 0
    /\ lastReconnect = 0
    /\ lastButtonPress = 0
    /\ muteToggleRequest = FALSE
    /\ msgBuffer = ""
    /\ buzzer = "off"
    /\ clock = 0
    /\ radio = FALSE
    /\ pc = "unit"
    /\ startTime = 0
    /\ tk = NoTick
    /\ presses = 0
    /\ pressTimes = <<>>
    /\ consumed = <<>>
    /\ prevCheckTime = 0
    /\ prevReconnect = 0
    /\ lastResult = "none"
    /\ setupEnd = 0
    /\ ticks = 0
    /\ advances = 0
    /\ call = NoCall

\* elapsedTime applied to a start and to the time d later.
ApplyElapsedTime ==
    /\ call = NoCall
    /\ \E s \in Stamps, d \in Spans :
          call' = [fn |-> "elapsedTime", start |-> s, now |-> Add32(s, d),
                   d |-> d, ret |-> elapsedTime(s, Add32(s, d))]
    /\ UNCHANGED machine

\* intervalPassed applied with mock_millis() the time d after lastTime.
ApplyIntervalPassed ==
    /\ call = NoCall
    /\ \E l \in Stamps, d \in Spans, i \in Intervals :
          call' = [fn |-> "intervalPassed", lastTime |-> l,
                   now |-> Add32(l, d), d |-> d, interval |-> i,
                   ret |-> intervalPassed(l, Add32(l, d), i)]
    /\ UNCHANGED machine

\* isSiteUp applied to a result code.
ApplyIsSiteUp ==
    /\ call = NoCall
    /\ \E c \in TestCodes :
          call' = [fn |-> "isSiteUp", code |-> c, ret |-> isSiteUp(c)]
    /\ UNCHANGED machine

\* getStatusDescription applied to a result code, next to isSiteUp's verdict.
ApplyGetStatusDescription ==
    /\ call = NoCall
    /\ \E c \in TestCodes :
          call' = [fn |-> "getStatusDescription", code |-> c,
                   ret |-> getStatusDescription(c), up |-> isSiteUp(c)]
    /\ UNCHANGED machine

\* The optimized firmware's checkSiteStatus with http.GET() returning c.
ApplyCheckSiteStatus ==
    /\ call = NoCall
    /\ \E c \in TestCodes :
          call' = [fn |-> "checkSiteStatus", code |-> c,
                   ret |-> checkSiteStatus([begun |-> TRUE, code |-> c])]
    /\ UNCHANGED machine

\* main.cpp's checkSite with http.GET() returning c.
ApplyCheckSite ==
    /\ call = NoCall
    /\ \E c \in TestCodes :
          call' = [fn |-> "checkSite", code |-> c,
                   ret |-> checkSite([begun |-> TRUE, code |-> c])]
    /\ UNCHANGED machine

UnitNext ==
    \/ ApplyElapsedTime
    \/ ApplyIntervalPassed
    \/ ApplyIsSiteUp
    \/ ApplyGetStatusDescription
    \/ ApplyCheckSiteStatus
    \/ ApplyCheckSite

UnitSpec == UnitInit /\ [][UnitNext]_vars

\* ------------------------------------------------------------ main.cpp
\* The original firmware keeps the same kind of state under other names; the
\* model holds it in the same variables:
\*   beepEnabled      is  ~isMuted            toggleRequest  is  muteToggleRequest
\*   lastCheck        is  lastCheckTime       lastUp         is  siteIsUp
\*   wifiMessageDone  is  messageScrolling    start          is  startTime
\* Its positions are the pc values that begin with "M_".
MAIN_SETTLE         == 300
MAIN_POLL           == 200
MAIN_WIFI_TIMEOUT   == 15000
MAIN_TONE_TIME      == 3000
MAIN_CHECK_INTERVAL == 30000

beepEnabled == ~isMuted
toggleRequest == muteToggleRequest
lastCheck == lastCheckTime
wifiMessageDone == messageScrolling

\* The counter's phase at power-on: 0, and a phase that puts the first site
\* check in the first turn of loop() and the wrap within a minute of boot.
MainBootTimes == {0, Modulus - 20000}

\* The globals of main.cpp at power-on.
MainInit ==
    /\ isMuted = FALSE
    /\ siteIsUp = TRUE
    /\ wifiConnected = FALSE
    /\ messageScrolling = FALSE
    /\ lastCheckTime = 0
    /\ lastReconnect = 0
    /\ lastButtonPress = 0
    /\ muteToggleRequest = FALSE
    /\ msgBuffer = ""
    /\ buzzer = "off"
    /\ clock \in MainBootTimes
    /\ radio = FALSE
    /\ pc = "M_boot"
    /\ startTime = 0
    /\ tk = NoTick
    /\ presses = 0
    /\ pressTimes = <<>>
    /\ consumed = <<>>
    /\ prevCheckTime = 0
    /\ prevReconnect = 0
    /\ lastResult = "none"
    /\ setupEnd = 0
    /\ ticks = 0
    /\ advances = 0
    /\ call = NoCall

\* setup() up to the wait loop: the pins, the interrupt, the display,
\* delay(300), "Wifi...", WiFi.begin and start = millis().
MainSetupBegin ==
    /\ pc = "M_boot"
    /\ clock' = Wrap(clock + MAIN_SETTLE)
    /\ startTime' = Wrap(clock + MAIN_SETTLE)
    /\ buzzer' = "off"
    /\ msgBuffer' = "Wifi..."
    /\ pc' = "M_poll"
    /\ UNCHANGED <<state, muteToggleRequest, radio, ghost, budget, call>>

\* while (WiFi.status() != WL_CONNECTED && millis() - start < 15000) delay(200);
MainConnectWait ==
    /\ pc = "M_poll"
    /\ ~radio
    /\ elapsed(startTime, clock) < MAIN_WIFI_TIMEOUT
    /\ clock' = Wrap(clock + MAIN_POLL)
    /\ UNCHANGED <<state, muteToggleRequest, msgBuffer, buzzer, radio, pc,
                   startTime, ghost, budget, call>>

\* The wait loop ends: connected, or timed out.
MainConnectExit ==
    /\ pc = "M_poll"
    /\ radio \/ elapsed(startTime, clock) >= MAIN_WIFI_TIMEOUT
    /\ pc' = "M_decide"
    /\ UNCHANGED <<state, muteToggleRequest, msgBuffer, buzzer, clock, radio,
                   startTime, ghost, budget, call>>

\* if (WiFi.status() != WL_CONNECTED) { "Wifi error"; tone(BUZZ, 2000); ...
MainSetupFail ==
    /\ pc = "M_decide"
    /\ ~radio
    /\ msgBuffer' = "Wifi error"
    /\ buzzer' = "alert"
    /\ pc' = "M_alert"
    /\ UNCHANGED <<state, muteToggleRequest, clock, radio, startTime, ghost,
                   budget, call>>

\* ... delay(3000); noTone(BUZZ); wifiMessageDone = true; return; }
MainAlertEnd ==
    /\ pc = "M_alert"
    /\ clock' = Wrap(clock + MAIN_TONE_TIME)
    /\ buzzer' = "off"
    /\ messageScrolling' = TRUE
    /\ pc' = "M_switch"
    /\ UNCHANGED <<isMuted, siteIsUp, wifiConnected, lastCheckTime,
                   lastReconnect, lastButtonPress, muteToggleRequest,
                   msgBuffer, radio, startTime, ghost, budget, call>>

\* showMessage("Wifi ok"); wifiMessageDone = true;
MainSetupOk ==
    /\ pc = "M_decide"
    /\ radio
    /\ msgBuffer' = "Wifi ok"
    /\ messageScrolling' = TRUE
    /\ pc' = "M_switch"
    /\ UNCHANGED <<isMuted, siteIsUp, wifiConnected, lastCheckTime,
                   lastReconnect, lastButtonPress, muteToggleRequest, buzzer,
                   clock, radio, startTime, ghost, budget, call>>

\* Mutation of MainSwitch: the tone is not stopped when the beep is disabled.
MainSwitch_NoSilence ==
    /\ pc = "M_switch"
    /\ ticks < MaxTicks
    /\ ticks' = ticks + 1
    /\ IF toggleRequest
       THEN /\ muteToggleRequest' = FALSE
            /\ isMuted' = beepEnabled
            /\ tk' = [NoTick EXCEPT
                        !.pending = TRUE,
                        !.toggle = IF beepEnabled THEN "muted" ELSE "unmuted",
                        !.cut = beepEnabled /\ buzzer = "alert"]
            /\ consumed' = Consume(TRUE)
       ELSE /\ tk' = NoTick
            /\ UNCHANGED <<muteToggleRequest, isMuted, consumed>>
    /\ pc' = "M_animate"
    /\ UNCHANGED <<siteIsUp, wifiConnected, messageScrolling, lastCheckTime,
                   lastReconnect, lastButtonPress, msgBuffer, buzzer, clock,
                   radio, startTime, presses, pressTimes, prevCheckTime,
                   prevReconnect, lastResult, setupEnd, advances, call>>

\* loop()'s first section: if (toggleRequest) { toggleRequest = false;
\* beepEnabled = !beepEnabled; if (!beepEnabled) noTone(BUZZ); }
\* The tick starts here.
MainSwitch ==
    /\ pc = "M_switch"
    /\ ticks < MaxTicks
    /\ ticks' = ticks + 1
    /\ IF toggleRequest
       THEN /\ muteToggleRequest' = FALSE
            /\ isMuted' = beepEnabled
            /\ buzzer' = IF beepEnabled THEN "off" ELSE buzzer
            /\ tk' = [NoTick EXCEPT
                        !.pending = TRUE,
                        !.toggle = IF beepEnabled THEN "muted" ELSE "unmuted",
                        !.cut = beepEnabled /\ buzzer = "alert"]
            /\ consumed' = Consume(TRUE)
       ELSE /\ tk' = NoTick
            /\ UNCHANGED <<muteToggleRequest, isMuted, buzzer, consumed>>
    /\ pc' = "M_animate"
    /\ UNCHANGED <<siteIsUp, wifiConnected, messageScrolling, lastCheckTime,
                   lastReconnect, lastButtonPress, msgBuffer, clock, radio,
                   startTime, presses, pressTimes, prevCheckTime,
                   prevReconnect, lastResult, setupEnd, advances, call>>

\* P.displayAnimate(), and the clearing of the panel once the WiFi message
\* has finished scrolling.
MainAnimate ==
    /\ pc = "M_animate"
    /\ \E done \in BOOLEAN :
          IF wifiMessageDone /\ done
          THEN messageScrolling' = FALSE /\ msgBuffer' = ""
          ELSE UNCHANGED <<messageScrolling, msgBuffer>>
    /\ pc' = "M_check"
    /\ UNCHANGED <<isMuted, siteIsUp, wifiConnected, lastCheckTime,
                   lastReconnect, lastButtonPress, muteToggleRequest, buzzer,
                   clock, radio, startTime, ghost, budget, call>>

\* if (millis() - lastCheck >= 30000) { lastCheck = millis(); "PING"; ...
MainCheck ==
    /\ pc = "M_check"
    /\ IF elapsed(lastCheck, clock) >= MAIN_CHECK_INTERVAL
       THEN /\ lastCheckTime' = clock
            /\ prevCheckTime' = lastCheckTime
            /\ msgBuffer' = "PING"
            /\ pc' = "M_ping"
       ELSE /\ pc' = "M_end"
            /\ UNCHANGED <<lastCheckTime, prevCheckTime, msgBuffer>>
    /\ UNCHANGED <<isMuted, siteIsUp, wifiConnected, messageScrolling,
                   lastReconnect, lastButtonPress, muteToggleRequest, buzzer,
                   clock, radio, startTime, tk, presses, pressTimes,
                   consumed, prevReconnect, lastResult, setupEnd, budget, call>>

\* ... bool up = checkSite(); and the two branches on up.
MainSiteCheck ==
    /\ pc = "M_ping"
    /\ \E o \in Outcomes :
          LET up == checkSite(o)
          IN /\ siteIsUp' = up
             /\ buzzer' = IF up THEN "off"
                          ELSE IF beepEnabled THEN "alert" ELSE buzzer
             /\ msgBuffer' = IF up THEN "UP" ELSE "Error!!!"
             /\ tk' = [tk EXCEPT !.check = IF up THEN "up" ELSE "down",
                                 !.got = {o}]
             /\ lastResult' = Kind(o)
    /\ pc' = "M_end"
    /\ UNCHANGED <<isMuted, wifiConnected, messageScrolling, lastCheckTime,
                   lastReconnect, lastButtonPress, muteToggleRequest, clock,
                   radio, startTime, presses, pressTimes, consumed,
                   prevCheckTime, prevReconnect, setupEnd, budget, call>>

\* loop() returns and is called again.
MainLoopEnd ==
    /\ pc = "M_end"
    /\ pc' = "M_switch"
    /\ UNCHANGED <<state, muteToggleRequest, msgBuffer, buzzer, clock, radio,
                   startTime, ghost, budget, call>>

\* The falling-edge interrupt on SW.  It fires while setup() waits, during
\* the blocking request or between two turns of loop().
handleSwitch ==
    /\ pc \in {"M_poll", "M_alert", "M_ping", "M_end"}
    /\ pc = "M_poll" => clock = startTime
    /\ presses < MaxPresses
    /\ muteToggleRequest' = TRUE
    /\ presses' = presses + 1
    /\ pressTimes' = Latest(pressTimes, clock)
    /\ UNCHANGED <<state, msgBuffer, buzzer, clock, radio, pc, startTime, tk,
                   consumed, prevCheckTime, prevReconnect, lastResult, setupEnd,
                   budget, call>>

\* Time passes between two turns of loop().
MainAdvance ==
    /\ pc = "M_end"
    /\ advances < MaxAdvance
    /\ advances' = advances + 1
    /\ \E d \in Deltas : clock' = Wrap(clock + d)
    /\ UNCHANGED <<state, muteToggleRequest, msgBuffer, buzzer, radio, pc,
                   startTime, ghost, ticks, call>>

\* WiFi.status() changes right after WiFi.begin, at the turn of the timeout,
\* or between the wait loop and the test that follows it.
MainRadioChange ==
    /\ \/ pc = "M_decide"
       \/ /\ pc = "M_poll"
          /\ \/ clock = startTime
             \/ elapsed(startTime, clock) >= MAIN_WIFI_TIMEOUT
    /\ radio' = ~radio
    /\ UNCHANGED <<state, muteToggleRequest, msgBuffer, buzzer, clock, pc,
                   startTime, ghost, budget, call>>

MainNext ==
    \/ MainSetupBegin
    \/ MainConnectWait
    \/ MainConnectExit
    \/ MainSetupFail
    \/ MainAlertEnd
    \/ MainSetupOk
    \/ MainSwitch
    \/ MainAnimate
    \/ MainCheck
    \/ MainSiteCheck
    \/ MainLoopEnd
    \/ handleSwitch
    \/ MainAdvance
    \/ MainRadioChange

MainSpec == MainInit /\ [][MainNext]_vars

\* ------------------------------------------------------------ both firmwares
\* Either firmware, from its power-on state.
BothInit == Init \/ MainInit

BothNext == Next \/ MainNext

BothSpec == BothInit /\ [][BothNext]_vars

\* ------------------------------------------------------------ the loop without end
\* The optimized firmware with loop() called again for ever, the radio
\* reporting not-connected at every status sample of loop(), and the button
\* left alone.  Each turn of loop() takes LiveTick, chosen so that two turns
\* and the grace delay of an attempt make 2^16 ms: the attempts then recur
\* with that period and the run comes back to a state it has been in after
\* one full cycle of the counter, wrap included.
LiveTick == (65536 - RECONNECT_GRACE) \div 2

\* LoopAnimate, without the count of ticks.
LiveAnimate ==
    /\ pc = "L_animate"
    /\ \E done \in BOOLEAN :
          messageScrolling' = IF done /\ messageScrolling THEN FALSE
                              ELSE messageScrolling
    /\ tk' = [NoTick EXCEPT !.pending = muteToggleRequest]
    /\ pc' = After("L_animate")
    /\ UNCHANGED <<isMuted, siteIsUp, wifiConnected, lastCheckTime,
                   lastReconnect, lastButtonPress, muteToggleRequest,
                   msgBuffer, buzzer, clock, radio, startTime, presses,
                   pressTimes, consumed, prevCheckTime, lastResult, setupEnd,
                   prevReconnect, budget, call>>

\* checkWiFiConnection's sample, with the radio reporting not-connected.
LiveCheckWiFi == ~radio /\ CheckWiFi

\* delay(10) and whatever else makes the turn of loop() last LiveTick.
LiveDelay ==
    /\ pc = "L_delay"
    /\ clock' = Wrap(clock + LiveTick)
    /\ pc' = "L_animate"
    /\ UNCHANGED <<state, muteToggleRequest, msgBuffer, buzzer, radio,
                   startTime, ghost, budget, call>>

\* The radio connects during setup()'s wait, right after WiFi.begin.
LiveRadioUp ==
    /\ pc = "C_poll"
    /\ clock = startTime
    /\ ~radio
    /\ radio' = TRUE
    /\ UNCHANGED <<state, muteToggleRequest, msgBuffer, buzzer, clock, pc,
                   startTime, ghost, budget, call>>

\* The connection is lost before loop() first samples the status.
LiveRadioDown ==
    /\ pc = "W_check"
    /\ radio
    /\ radio' = FALSE
    /\ UNCHANGED <<state, muteToggleRequest, msgBuffer, buzzer, clock, pc,
                   startTime, ghost, budget, call>>

\* The steps of the program.
LiveProgram ==
    \/ SetupBegin
    \/ ConnectWait
    \/ SetupWiFiOk
    \/ SetupWiFiFail
    \/ SetupAlertEnd
    \/ LiveAnimate
    \/ LoopButton
    \/ LiveCheckWiFi
    \/ ReconnectWait
    \/ LoopCheck
    \/ LiveDelay

LiveNext ==
    \/ LiveProgram
    \/ LiveRadioUp
    \/ LiveRadioDown

\* loop() is called again as soon as it returns and every delay ends: the
\* program always takes its next step.  The radio either connects at once
\* or not at all, and a connection made is lost before the first sample.
LiveSpec ==
    /\ Init
    /\ [][LiveNext]_vars
    /\ WF_vars(LiveProgram)
    /\ WF_vars(LiveRadioDown)

\* ------------------------------------------------------------ loop() called again at once
\* loop() is called again with the millisecond counter standing where the
\* tick before it left it (a harness that holds millis() still and lets
\* delay(10) take no time).  call records what the repeated tick started
\* from, and the history of the run so far is dropped.  Reported is what
\* WiFi.status() last answered in the tick that ends.
Reported ==
    IF tk.recon = "ok" THEN "up"
    ELSE IF tk.recon = "failed" THEN "down"
    ELSE tk.sample

Repeat ==
    /\ pc = "L_delay"
    /\ call = NoCall
    /\ ~tk.late
    /\ call' = [fn |-> "loop", now |-> clock, radio |-> Reported,
                state |-> state, buzzer |-> buzzer, msgBuffer |-> msgBuffer]
    /\ pc' = "L_animate"
    /\ tk' = NoTick
    /\ presses' = 0
    /\ pressTimes' = <<>>
    /\ consumed' = <<>>
    /\ prevCheckTime' = 0
    /\ prevReconnect' = 0
    /\ ticks' = 0
    /\ advances' = 0
    /\ UNCHANGED <<state, muteToggleRequest, msgBuffer, buzzer, clock, radio,
                   startTime, lastResult, setupEnd>>

\* The run as in Spec; then the repeated tick: its steps, and the radio,
\* which may change during it.
AgainNext ==
    \/ call = NoCall /\ Next
    \/ Repeat
    \/ call # NoCall /\ LiveAnimate
    \/ call # NoCall /\ LoopButton
    \/ call # NoCall /\ HandleMuteToggle
    \/ call # NoCall /\ CheckWiFi
    \/ call # NoCall /\ ReconnectWait
    \/ call # NoCall /\ LoopCheck
    \/ call # NoCall /\ SiteCheck
    \/ call # NoCall /\ RadioChange

\* The firmware as in Spec, until loop() is called again at once.
AgainSpec == Init /\ [][AgainNext]_vars

\* ------------------------------------------------------------ setup() poll by poll
\* What a turn of connectWiFi()'s wait loop may take beyond delay(100): the
\* display step and the scheduler make it last longer, never shorter.
Jitter == {0, 99}

\* One turn of the wait loop, lasting POLL_DELAY or more.
BootWait ==
    /\ pc = "C_poll"
    /\ ~radio
    /\ ~connectTimedOut(clock)
    /\ \E j \in Jitter : clock' = Wrap(clock + POLL_DELAY + j)
    /\ UNCHANGED <<state, muteToggleRequest, msgBuffer, buzzer, radio, pc,
                   startTime, ghost, budget, call>>

\* WiFi.status() changes at any time during the wait.
BootRadio ==
    /\ pc = "C_poll"
    /\ radio' = ~radio
    /\ UNCHANGED <<state, muteToggleRequest, msgBuffer, buzzer, clock, pc,
                   startTime, ghost, budget, call>>

\* The steps of setup().
BootProgram ==
    \/ SetupBegin
    \/ BootWait
    \/ SetupWiFiOk
    \/ SetupWiFiFail
    \/ SetupAlertEnd

BootNext ==
    \/ BootProgram
    \/ BootRadio

\* setup() alone, the button left alone: every delay ends, so setup() always
\* takes its next step.
BootSpec ==
    /\ Init
    /\ [][BootNext]_vars
    /\ WF_vars(BootProgram)

\* ------------------------------------------------------------ the loop without end, radio free
\* The optimized firmware with loop() called again for ever and a radio that
\* may change, during setup() and the first MaxTicks turns of loop(), and
\* keeps its status from then on.  A turn of loop() ends when the counter
\* reaches its next multiple of Grain, so that the run comes back to a state
\* it has been in after one full cycle of the counter.
Grain == Half * 16

\* delay(10) and whatever else makes the turn of loop() last until the next
\* multiple of Grain; the turns are counted up to MaxTicks.
RecoverDelay ==
    /\ pc = "L_delay"
    /\ clock' = Wrap(((clock \div Grain) + 1) * Grain)
    /\ ticks' = IF ticks < MaxTicks THEN ticks + 1 ELSE ticks
    /\ pc' = "L_animate"
    /\ UNCHANGED <<state, muteToggleRequest, msgBuffer, buzzer, radio,
                   startTime, ghost, advances, call>>

\* WiFi.status() changes, seen at the next place the program samples it.
RecoverRadio ==
    /\ ticks < MaxTicks
    /\ RadioChange

\* The steps of the program.
RecoverProgram ==
    \/ SetupBegin
    \/ ConnectWait
    \/ SetupWiFiOk
    \/ SetupWiFiFail
    \/ SetupAlertEnd
    \/ LiveAnimate
    \/ LoopButton
    \/ CheckWiFi
    \/ ReconnectWait
    \/ LoopCheck
    \/ SiteCheck
    \/ RecoverDelay

RecoverNext ==
    \/ RecoverProgram
    \/ RecoverRadio

\* loop() is called again as soon as it returns and every delay ends: the
\* program always takes its next step.  Nothing is required of the radio.
RecoverSpec ==
    /\ Init
    /\ [][RecoverNext]_vars
    /\ WF_vars(RecoverProgram)

\* ------------------------------------------------------------ the loop without end, button pressed
\* The optimized firmware with loop() called again for ever.  The button is
\* pressed, and the radio may change, during setup() and the first MaxTicks
\* turns of loop(); those turns end after delay(10), the later ones when the
\* counter reaches its next multiple of ButtonGrain, so that the run comes
\* back to a state it has been in after one full cycle of the counter.
ButtonGrain == Half * 1024

\* delay(10) at the end of loop(), and in the later turns whatever else makes
\* the turn last until the next multiple of ButtonGrain; the turns are
\* counted up to MaxTicks.
ButtonDelay ==
    /\ pc = "L_delay"
    /\ clock' = IF ticks < MaxTicks
                THEN Wrap(clock + LOOP_DELAY)
                ELSE Wrap(((clock \div ButtonGrain) + 1) * ButtonGrain)
    /\ ticks' = IF ticks < MaxTicks THEN ticks + 1 ELSE ticks
    /\ pc' = "L_animate"
    /\ UNCHANGED <<state, muteToggleRequest, msgBuffer, buzzer, radio,
                   startTime, ghost, advances, call>>

\* The falling edge on MUTE_PIN, in the turns that are counted.
ButtonPress ==
    /\ ticks < MaxTicks
    /\ onMuteButtonPress

\* WiFi.status() changes, in the turns that are counted.
ButtonRadio ==
    /\ ticks < MaxTicks
    /\ RadioChange

\* The steps of the program.
ButtonProgram ==
    \/ SetupBegin
    \/ ConnectWait
    \/ SetupWiFiOk
    \/ SetupWiFiFail
    \/ SetupAlertEnd
    \/ LiveAnimate
    \/ LoopButton
    \/ HandleMuteToggle
    \/ CheckWiFi
    \/ ReconnectWait
    \/ LoopCheck
    \/ SiteCheck
    \/ ButtonDelay

ButtonNext ==
    \/ ButtonProgram
    \/ ButtonPress
    \/ ButtonRadio
    \/ ToneExpire

\* loop() is called again as soon as it returns, every delay ends and the
\* blocking reconnect and HTTP calls return: the program always takes its
\* next step.  Nothing is required of the button or the radio.
ButtonSpec ==
    /\ Init
    /\ [][ButtonNext]_vars
    /\ WF_vars(ButtonProgram)

\* ------------------------------------------------------------ a long time without WiFi
\* The time from setup()'s return to the end of the counter's cycle, less the
\* offset setup() gave lastCheckTime.
Window == Modulus - (CHECK_INTERVAL - FIRST_CHECK_DELAY)

\* Extra time that lands the site-check test of a tick with a reconnect
\* attempt one millisecond short of, or exactly on, Window after the tick
\* before it.
LateDeltas == {Window - RECONNECT_GRACE - LOOP_DELAY - 1,
               Window - RECONNECT_GRACE - LOOP_DELAY}

\* Almost a whole cycle of the counter goes by in loop()'s closing delay
\* (standing for the turns of loop() that pass without WiFi in that time).
LateAdvance ==
    /\ pc = "L_delay"
    /\ ~wifiConnected
    /\ advances < MaxAdvance
    /\ advances' = advances + 1
    /\ \E d \in LateDeltas : clock' = Wrap(clock + d)
    /\ tk' = [tk EXCEPT !.late = TRUE]
    /\ UNCHANGED <<state, muteToggleRequest, msgBuffer, buzzer, radio, pc,
                   startTime, presses, pressTimes, consumed, prevCheckTime,
                   prevReconnect, lastResult, setupEnd, ticks, call>>

LateNext ==
    \/ Next
    \/ LateAdvance

\* The firmware as in Spec, with the long delays as well.
LateSpec == Init /\ [][LateNext]_vars

\* ------------------------------------------------------------ helpers of the properties
LoopSteps == {"L_animate", "L_button", "H_toggle", "W_check", "W_delay",
              "L_check", "S_ping", "L_delay"}

\* The tick is past its button section.
PastButton == {"W_check", "W_delay", "L_check", "S_ping", "L_delay"}

\* Accepted toggles among the consumptions on record.
Flips == Cardinality({i \in 1..Len(consumed) : consumed[i].acc})

\* Interrupt edges absorbed by the consumptions so far.
Absorbed == IF consumed = <<>> THEN 0 ELSE consumed[Len(consumed)].upto

\* Interrupt edges absorbed by the latest consumption alone.
LastAbsorbed ==
    IF Len(consumed) = 2 THEN consumed[2].upto - consumed[1].upto ELSE Absorbed

\* ------------------------------------------------------------ C1
\* C1: whenever the site request is about to be issued, wifiConnected is true,
\* and the radio reported connected at this tick's status sample or at the
\* re-sample after this tick's reconnect attempt.
C1_NoCheckWhileDisconnected ==
    pc = "S_ping" =>
        /\ wifiConnected
        /\ tk.sample = "up" \/ tk.recon = "ok"

\* C1 witness: a site request is issued in the tick of a successful reconnect.
C1_Witness == pc = "S_ping" /\ tk.recon = "ok" /\ tk.loss

\* ------------------------------------------------------------ C2
\* C2: with wifiConnected true, loop()'s interval test starts the site check
\* exactly when (now - lastCheckTime) mod Modulus >= CHECK_INTERVAL; on
\* starting it sets lastCheckTime = now, so the test cannot pass again for the
\* same timestamp.
C2_CheckInterval ==
    [][(pc = "L_check" /\ pc' # pc /\ wifiConnected) =>
          /\ (pc' = "S_ping") <=>
                 (elapsed(lastCheckTime, clock) >= CHECK_INTERVAL)
          /\ pc' = "S_ping" =>
                 /\ lastCheckTime' = clock
                 /\ elapsed(lastCheckTime', clock) < CHECK_INTERVAL
          /\ pc' # "S_ping" => lastCheckTime' = lastCheckTime]_vars

\* C2 witness: the check fired at an elapsed time of exactly CHECK_INTERVAL,
\* with the counter wrapped past the previous lastCheckTime.
C2_Witness ==
    /\ pc = "S_ping"
    /\ elapsed(prevCheckTime, lastCheckTime) = CHECK_INTERVAL
    /\ lastCheckTime < prevCheckTime

\* ------------------------------------------------------------ C3
\* C3 as stated: when checkWiFiConnection evaluates the reconnect rule, a
\* reconnect attempt is made (lastReconnect = now) exactly when
\* state.wifiConnected is false and (now - lastReconnect) mod Modulus >=
\* RECONNECT_INTERVAL.
C3_ReconnectWhenDisconnected ==
    [][(pc = "W_check" /\ pc' # pc) =>
          ((~wifiConnected' /\
                elapsed(lastReconnect, clock) >= RECONNECT_INTERVAL)
           <=> (pc' = "W_delay" /\ lastReconnect' = clock))]_vars

\* ------------------------------------------------------------ C4
\* C4: in the status sample of a tick where wifiConnected is true and the
\* radio reports not-connected, wifiConnected becomes false and the alert
\* tone is on exactly when isMuted is false; a sample taken while
\* wifiConnected is already false leaves the buzzer as it was, and no step of
\* loop() turns the alert tone on while wifiConnected is false.
C4_LossEdgeTriggered ==
    [][/\ (pc = "W_check" /\ pc' # pc) =>
             IF wifiConnected /\ ~radio
             THEN ~wifiConnected' /\ ((buzzer' = "alert") <=> ~isMuted)
             ELSE buzzer' = buzzer /\ wifiConnected' = wifiConnected
       /\ (pc \in LoopSteps /\ ~wifiConnected /\ buzzer # "alert") =>
             buzzer' # "alert"]_vars

\* C4 witness: a loss was detected in a tick whose toggle was rejected by the
\* debounce, and the alert tone is on.
C4_Witness == tk.loss /\ tk.toggle = "rejected" /\ buzzer = "alert"

\* ------------------------------------------------------------ C5
\* C5 as stated: once two interrupt edges have been raised and consumed, one
\* mute flip has been accepted if their real-time gap is < DEBOUNCE_DELAY and
\* two if it is >= DEBOUNCE_DELAY.  (Stated for the runs whose first
\* consumption is accepted, so that the initial lastButtonPress of 0 plays no
\* part.)
C5_TwoEdgesByPressTime ==
    (/\ presses = 2
     /\ ~muteToggleRequest
     /\ pc # "H_toggle"
     /\ consumed # <<>>
     /\ consumed[1].acc) =>
        Flips = IF elapsed(pressTimes[1], pressTimes[2]) < DEBOUNCE_DELAY
                THEN 1 ELSE 2

\* C5 amended: the debounce runs over consumption times: after a request
\* accepted at loop time t1, the next request consumed, at loop time t2, is
\* accepted exactly when (t2 - t1) mod Modulus >= DEBOUNCE_DELAY.
C5_DebounceByConsumption ==
    (Len(consumed) = 2 /\ consumed[1].acc) =>
        (consumed[2].acc <=>
            elapsed(consumed[1].at, consumed[2].at) >= DEBOUNCE_DELAY)

\* C5 witness: a request consumed 199 ms after an accepted one was rejected.
C5_Witness ==
    /\ Len(consumed) = 2
    /\ consumed[1].acc
    /\ ~consumed[2].acc
    /\ elapsed(consumed[1].at, consumed[2].at) = DEBOUNCE_DELAY - 1

\* ------------------------------------------------------------ C6
\* C6: handleMuteToggle, run inside the debounce window, clears the request
\* flag and changes no field of the state, nor the buzzer, nor the display
\* text.
C6_RejectedToggleFrame ==
    [][(pc = "H_toggle" /\ pc' # pc /\
            elapsed(lastButtonPress, clock) < DEBOUNCE_DELAY) =>
          /\ ~muteToggleRequest'
          /\ UNCHANGED <<isMuted, siteIsUp, wifiConnected, messageScrolling,
                         lastCheckTime, lastReconnect, lastButtonPress,
                         buzzer, msgBuffer>>]_vars

\* C6 witness: a toggle was rejected and the tick went on.
C6_Witness ==
    /\ pc = "W_check"
    /\ tk.toggle = "rejected"
    /\ ~muteToggleRequest
    /\ elapsed(lastButtonPress, clock) < DEBOUNCE_DELAY

\* ------------------------------------------------------------ C7
\* C7: handleMuteToggle, run at or beyond the debounce window, clears the
\* flag, sets lastButtonPress = now and flips isMuted; with no request
\* pending loop() skips handleMuteToggle, and isMuted and lastButtonPress
\* change in no other step.
C7_AcceptedToggle ==
    [][/\ (pc = "H_toggle" /\ pc' # pc /\
               elapsed(lastButtonPress, clock) >= DEBOUNCE_DELAY) =>
             /\ ~muteToggleRequest'
             /\ lastButtonPress' = clock
             /\ isMuted' = ~isMuted
       /\ (pc = "L_button" /\ ~muteToggleRequest) => pc' # "H_toggle"
       /\ (isMuted' # isMuted \/ lastButtonPress' # lastButtonPress) =>
             pc = "H_toggle"]_vars

\* C7 witness: two toggles accepted exactly DEBOUNCE_DELAY apart, the counter
\* having wrapped between them.
C7_Witness ==
    /\ Len(consumed) = 2
    /\ consumed[1].acc
    /\ consumed[2].acc
    /\ elapsed(consumed[1].at, consumed[2].at) = DEBOUNCE_DELAY
    /\ consumed[2].at < consumed[1].at

\* ------------------------------------------------------------ C8
\* C8: the request is a single flag: it is pending exactly when an edge has
\* been raised since the latest consumption, every consumption absorbs all
\* the edges raised before it, and so yields at most one flip however many
\* there were.
C8_Coalescing ==
    /\ muteToggleRequest <=> presses > Absorbed
    /\ Len(consumed) = 2 => consumed[2].upto > consumed[1].upto
    /\ Flips <= Len(consumed)

\* C8 witness: one accepted consumption absorbed two edges, and nothing is
\* left pending.
C8_Witness ==
    /\ consumed # <<>>
    /\ consumed[Len(consumed)].acc
    /\ LastAbsorbed >= 2
    /\ ~muteToggleRequest

\* ------------------------------------------------------------ C9
\* C9: a step of the interrupt handler sets the request flag and changes
\* nothing else: no field of the state, not the buzzer, the display text, the
\* clock, the radio or the position of the loop.
C9_InterruptFrame ==
    [][presses' # presses =>
          /\ muteToggleRequest'
          /\ UNCHANGED <<isMuted, siteIsUp, wifiConnected, messageScrolling,
                         lastCheckTime, lastReconnect, lastButtonPress,
                         msgBuffer, buzzer, clock, radio, pc, startTime>>]_vars

\* C9 witness: the interrupt fired between loop()'s test of the flag and
\* handleMuteToggle, while muted and with the site down.
C9_Witness ==
    /\ pc = "H_toggle"
    /\ presses = 2
    /\ pressTimes[2] = clock
    /\ ~siteIsUp

\* ------------------------------------------------------------ C10
\* C10: a request pending at the start of a tick has been consumed before the
\* tick reaches its connectivity and site-check sections, and after a toggle
\* to muted the alert tone is off for the rest of the tick.
C10_ButtonFirst ==
    /\ (pc \in PastButton /\ tk.pending) => tk.toggle # "none"
    /\ (pc \in PastButton /\ tk.toggle = "muted") => buzzer # "alert"

\* C10 witness: a toggle to muted was accepted in a tick whose site check
\* came back down.
C10_Witness ==
    /\ pc = "L_delay"
    /\ tk.pending
    /\ tk.toggle = "muted"
    /\ tk.check = "down"

\* ------------------------------------------------------------ C13
\* The wrapped start and current time of test_elapsed_time_at_overflow_boundary.
BoundaryCase ==
    /\ call.start = Sub32(Max32, U32(100))
    /\ call.now = U32(100)

C14_IntervalPassed ==
    call.fn = "intervalPassed" =>
        (call.ret <=> Ge32(call.d, call.interval))

\* C14 witness: the interval has passed exactly, and the counter wrapped
\* between lastTime and now.
C14_Witness ==
    /\ call.fn = "intervalPassed"
    /\ call.d = call.interval
    /\ Lt32(call.now, call.lastTime)
    /\ call.ret

\* ------------------------------------------------------------ C15
\* C15: checkSiteStatus (given the code http.GET() returned) and isSiteUp
\* answer for every code, and the answer is down for code < 0, up for
\* 0 <= code < 500 and down for code >= 500.
C15_Verdict ==
    call.fn \in {"isSiteUp", "checkSiteStatus"} =>
        /\ call.ret \in BOOLEAN
        /\ call.code < 0 => ~call.ret
        /\ (0 <= call.code /\ call.code < 500) => call.ret
        /\ call.code >= 500 => ~call.ret

\* C15 witness: checkSiteStatus gave the verdict up for the code 0.
C15_Witness ==
    /\ call.fn = "checkSiteStatus"
    /\ call.code = 0
    /\ call.ret

\* ------------------------------------------------------------ C16
\* The label the claim gives to a code.
LabelOf(c) ==
    CASE c < 0                -> "Connection Error"
      [] 0 <= c /\ c <= 199   -> "Informational"
      [] 200 <= c /\ c <= 299 -> "Success"
      [] 300 <= c /\ c <= 399 -> "Redirect"
      [] 400 <= c /\ c <= 499 -> "Client Error"
      [] c >= 500             -> "Server Error"

\* C16: getStatusDescription answers for every code with the label of the
\* code's range, and isSiteUp's verdict for the code is down exactly when
\* the label is Connection Error or Server Error.
C16_Label ==
    call.fn = "getStatusDescription" =>
        /\ call.ret = LabelOf(call.code)
        /\ ~call.up <=> call.ret \in {"Connection Error", "Server Error"}

\* C16 witness: the code 499 was labelled Client Error, with the verdict up.
C16_Witness ==
    /\ call.fn = "getStatusDescription"
    /\ call.code = 499
    /\ call.ret = "Client Error"
    /\ call.up

\* ------------------------------------------------------------ C17
\* C17 as stated: for every code http.GET() returns, main.cpp's checkSite
\* gives the verdict of isSiteUp and of the optimized firmware's
\* checkSiteStatus.
C17_SameVerdict ==
    call.fn = "checkSite" =>
        /\ call.ret = isSiteUp(call.code)
        /\ call.ret = checkSiteStatus([begun |-> TRUE, code |-> call.code])

\* ------------------------------------------------------------ C11
\* C11: in both firmwares, whenever the device is muted (isMuted, that is
\* beepEnabled false in main.cpp) the alert tone is off, and in a tick that
\* has accepted a toggle to muted the device is muted and the buzzer is off,
\* whether or not the alert tone was sounding before the toggle.
C11_MutedIsSilent ==
    /\ isMuted => buzzer # "alert"
    /\ tk.toggle = "muted" => (isMuted /\ buzzer = "off")

\* C11 witness: main.cpp has accepted a toggle to muted while the alert tone
\* of a failed site check was sounding, and the buzzer is off.
C11_Witness ==
    /\ pc = "M_animate"
    /\ tk.toggle = "muted"
    /\ tk.cut
    /\ ~siteIsUp
    /\ buzzer = "off"

\* ------------------------------------------------------------ C12
\* C12: once a site check has completed in a tick, siteIsUp is isSiteUp's
\* verdict for the code the request returned (down when the request could not
\* be begun); if it is down the alert tone is on exactly when isMuted is
\* false, and if it is up the alert tone is off.
C12_CheckOutcome ==
    \A o \in tk.got :
        /\ siteIsUp = (o.begun /\ isSiteUp(o.code))
        /\ siteIsUp => buzzer # "alert"
        /\ ~siteIsUp => (buzzer = "alert" <=> ~isMuted)

\* C12 witness: a check that returned 500 completed while muted: the site is
\* down and the alert tone is off.
C12_Witness ==
    /\ tk.got = {[begun |-> TRUE, code |-> 500]}
    /\ ~siteIsUp
    /\ isMuted
    /\ buzzer = "off"

\* ------------------------------------------------------------ C18
\* setup() has finished after a failed boot connect, and since then no toggle
\* was accepted and no reconnect attempt was started (either would replace
\* the "WiFi Err" message).
AfterFailedBoot == pc \in LoopSteps /\ msgBuffer = "WiFi Err"

\* C18 as stated: after the boot connect has timed out, wifiConnected is
\* false and the alert tone is on when setup finishes, and stays on until a
\* mute toggle or a successful reconnection silences it.
C18_BootAlertPersists ==
    AfterFailedBoot => (~wifiConnected /\ buzzer = "alert")

\* C18 amended: after the boot connect has timed out, wifiConnected is false
\* and the alert tone sounds during the 1000 ms that setup waits; when setup
\* finishes the tone is off, and it stays off, with wifiConnected false,
\* until a toggle is accepted or a reconnect attempt is started.
C18_BootAlertBrief ==
    /\ pc = "U_alert" => (~wifiConnected /\ buzzer = "alert")
    /\ AfterFailedBoot => (~wifiConnected /\ buzzer = "off")

\* C18 witness: the loop is running after a failed boot connect,
\* ERROR_TONE_TIME after the timeout, with the tone off.
C18_Witness ==
    /\ AfterFailedBoot
    /\ pc = "W_check"
    /\ ticks = 1
    /\ elapsed(startTime, clock) = WIFI_TIMEOUT + ERROR_TONE_TIME
    /\ ~wifiConnected
    /\ buzzer = "off"

\* ------------------------------------------------------------ C19
\* A step of the optimized firmware, whatever the radio reports.
Step ==
    \/ SetupBegin \/ ConnectWait \/ SetupWiFiOk \/ SetupWiFiFail
    \/ SetupAlertEnd \/ LiveAnimate \/ LoopButton \/ HandleMuteToggle
    \/ CheckWiFi \/ ReconnectWait \/ LoopCheck \/ SiteCheck \/ LiveDelay

\* C19: the program never halts: in every state it can take a step; while
\* the radio keeps reporting not-connected a reconnect attempt is started
\* again and again; and at a status sample with the radio not connected an
\* attempt is started (lastReconnect = now) exactly when
\* (now - lastReconnect) mod Modulus >= RECONNECT_INTERVAL.
C19_AlwaysRetrying ==
    /\ [](ENABLED Step)
    /\ (<>[](~radio)) => []<>(pc = "W_delay")
    /\ [][(pc = "W_check" /\ ~radio /\ pc' # pc) =>
            ((pc' = "W_delay" /\ lastReconnect' = clock) <=>
                 elapsed(lastReconnect, clock) >= RECONNECT_INTERVAL)]_vars

\* C19 witness: an attempt is started 2^16 ms after the previous one, the
\* counter having wrapped in between, with the connection still down.
C19_Witness ==
    /\ pc = "W_delay"
    /\ ~radio
    /\ ~wifiConnected
    /\ elapsed(prevReconnect, lastReconnect) = 2 * LiveTick + RECONNECT_GRACE
    /\ lastReconnect < prevReconnect

\* ------------------------------------------------------------ C20
\* C20: a site check that ends in a transport error leaves siteIsUp false;
\* a request is issued at the time lastCheckTime was set to, and the request
\* that follows a check ended in a transport error is issued at least
\* CHECK_INTERVAL after that check started.
C20_NoImmediateRetry ==
    /\ lastResult = "transport" => ~siteIsUp
    /\ pc = "S_ping" => lastCheckTime = clock
    /\ (pc = "S_ping" /\ lastResult = "transport") =>
           elapsed(prevCheckTime, lastCheckTime) >= CHECK_INTERVAL

\* C20 witness: the request that follows a check ended in a transport error
\* is being issued, the site still recorded as down, CHECK_INTERVAL or more
\* after that check started.
C20_Witness ==
    /\ pc = "S_ping"
    /\ lastResult = "transport"
    /\ ~siteIsUp
    /\ elapsed(prevCheckTime, lastCheckTime) >= CHECK_INTERVAL

\* ------------------------------------------------------------ C21
\* The repeated tick has the inputs of the tick before it: the counter has
\* not moved, the radio reports what it reported, and no request was pending
\* when the tick started.
SameInputs ==
    /\ call.fn = "loop"
    /\ pc \in LoopSteps \ {"L_animate"}
    /\ clock = call.now
    /\ tk.sample \in {"none", call.radio}
    /\ ~tk.pending

C22_Throttled ==
    /\ pc = "W_delay" => (lastReconnect = clock /\ tk.recon = "started")
    /\ \/ lastReconnect = 0 /\ prevReconnect = 0
       \/ elapsed(prevReconnect, lastReconnect) >= RECONNECT_INTERVAL

\* C22 witness: a second attempt starts after the first one had succeeded
\* and a site check had run: the connection was lost again in this tick, the
\* counter wrapped between the two attempts, and they are RECONNECT_INTERVAL
\* and the time of the site check apart.
C22_Witness ==
    /\ pc = "W_delay"
    /\ tk.loss
    /\ prevReconnect # 0
    /\ elapsed(prevReconnect, lastReconnect) =
           RECONNECT_INTERVAL + PING_DISPLAY_TIME
    /\ lastReconnect < prevReconnect

\* ------------------------------------------------------------ C23
\* C23: once setup has finished, wifiConnected changes in two places only:
\* from true to false at the status sample of a tick, the radio reporting
\* not-connected, and from false to true at the re-sample that ends a
\* reconnect attempt, the radio reporting connected.  The display step, the
\* button handling, the site check and the closing delay leave it alone.
C23_ConnectivityFrame ==
    [][(pc \in LoopSteps /\ wifiConnected' # wifiConnected) =>
          \/ wifiConnected /\ pc = "W_check" /\ ~radio
          \/ ~wifiConnected /\ pc = "W_delay" /\ radio
                /\ lastReconnect = Wrap(clock' - RECONNECT_GRACE)]_vars

\* C23 witness: in one tick a toggle was accepted, the connection was lost
\* and regained, and a site check ran: wifiConnected has gone from true to
\* false and back to true.
C23_Witness ==
    /\ pc = "L_delay"
    /\ tk.toggle \in {"muted", "unmuted"}
    /\ tk.loss
    /\ tk.recon = "ok"
    /\ tk.check # "none"
    /\ wifiConnected

\* ------------------------------------------------------------ C24
\* C24: setup() comes to its end; at each poll of connectWiFi()'s wait loop,
\* if the radio reports connected connectWiFi returns true, otherwise if
\* (millis - startTime) mod Modulus >= WIFI_TIMEOUT it returns false, and
\* otherwise it waits and polls again later: it times out at an elapsed time
\* of exactly WIFI_TIMEOUT and not one millisecond before.  setup stores the
\* result in wifiConnected.
C24_ConnectWait ==
    /\ <>(pc = "L_animate")
    /\ [][(pc = "C_poll" /\ (pc' # pc \/ clock' # clock)) =>
            IF radio
            THEN pc' = "L_animate" /\ wifiConnected' /\ clock' = clock
            ELSE IF elapsed(startTime, clock) >= WIFI_TIMEOUT
            THEN pc' = "U_alert" /\ ~wifiConnected' /\ clock' = clock
            ELSE /\ pc' = "C_poll"
                 /\ elapsed(startTime, clock') > elapsed(startTime, clock)
                 /\ ~wifiConnected']_vars
    /\ [][(pc = "U_alert" /\ pc' # pc) =>
            (pc' = "L_animate" /\ ~wifiConnected')]_vars

\* C24 witness: the wait has timed out at an elapsed time of exactly
\* WIFI_TIMEOUT, the counter having wrapped during the wait.
C24_Witness ==
    /\ pc = "U_alert"
    /\ elapsed(startTime, clock) = WIFI_TIMEOUT
    /\ clock < startTime
    /\ ~wifiConnected

\* ------------------------------------------------------------ C25
\* C25 as stated: whenever main.cpp's loop() issues the site request, the
\* WiFi is connected (WiFi.status() reports WL_CONNECTED), also after a
\* boot-time connect that failed.
C25_MainNoCheckWhileDisconnected ==
    pc = "M_ping" => radio

\* ------------------------------------------------------------ C26
\* The positions of main.cpp's loop().
MainLoopSteps == {"M_switch", "M_animate", "M_check", "M_ping", "M_end"}

\* C26 as stated: the main loop uses no blocking delays: while a mute request
\* is pending, no step of loop(), in either firmware, is a timed pause that
\* lets the millisecond counter run before the flag is polled again.  (Read
\* in the claim's favour: the delay(10) that closes the optimized loop() is
\* not counted.)
C26_NoBlockingDelays ==
    [][(/\ muteToggleRequest
        /\ pc \in (LoopSteps \cup MainLoopSteps) \ {"L_delay"}
        /\ pc' # pc) => clock' = clock]_vars

\* ------------------------------------------------------------ C27
\* The member initializers of struct State.
Defaults == <<FALSE, TRUE, FALSE, FALSE, 0, 0, 0>>

\* C27: at process start the state is isMuted = false, siteIsUp = true,
\* wifiConnected = false, messageScrolling = false, lastCheckTime =
\* lastReconnect = lastButtonPress = 0, and the request flag is false; the
\* state keeps these values until connectWiFi() has returned, and the flag
\* stays false until the interrupt fires.
C27_Defaults ==
    /\ pc \in {"boot", "C_poll"} => state = Defaults
    /\ (pc \in {"boot", "C_poll"} /\ presses = 0) => ~muteToggleRequest

\* C27 witness: connectWiFi()'s wait has reached the timeout with the state
\* still at its defaults and the request flag false.
C27_Witness ==
    /\ pc = "C_poll"
    /\ elapsed(startTime, clock) = WIFI_TIMEOUT
    /\ state = Defaults
    /\ ~muteToggleRequest

\* ------------------------------------------------------------ C28
\* C28 as stated: if, after a failed boot connect or a connection loss, the
\* radio comes to report connected and keeps doing so, then wifiConnected
\* becomes true and stays true, and site checks are run again and again:
\* also when the radio recovered by itself between two reconnect attempts.
C28_Recovery ==
    (<>[]radio) => (<>[]wifiConnected /\ []<>(pc = "S_ping"))

\* ------------------------------------------------------------ C29
\* C29: at the re-sample that ends a reconnect attempt, if the radio reports
\* connected wifiConnected becomes true and the buzzer is silenced, whether
\* siteIsUp is true or false; if it reports not-connected wifiConnected
\* stays false and the buzzer is left as it was.
C29_ReconnectOutcome ==
    [][(pc = "W_delay" /\ pc' # pc) =>
          IF radio
          THEN wifiConnected' /\ buzzer' = "off" /\ siteIsUp' = siteIsUp
          ELSE ~wifiConnected /\ ~wifiConnected' /\ buzzer' = buzzer]_vars

\* C29 witness: a reconnect attempt has just succeeded in the tick that
\* detected the loss, unmuted and with the site still recorded as down:
\* wifiConnected is true and the alert tone is off.
C29_Witness ==
    /\ pc = "L_check"
    /\ tk.recon = "ok"
    /\ tk.loss
    /\ ~isMuted
    /\ ~siteIsUp
    /\ wifiConnected
    /\ buzzer = "off"

\* ------------------------------------------------------------ C30
\* No site check has been completed yet.
NoCheckYet == lastResult = "none"

\* C30 as stated: when setup() returns, at the timestamp s, lastCheckTime is
\* s - CHECK_INTERVAL + FIRST_CHECK_DELAY in wrapping arithmetic (CHECK_INTERVAL
\* - FIRST_CHECK_DELAY before s, also when s is smaller than that); the first
\* site check is issued with wifiConnected true and (now - s) mod Modulus >=
\* FIRST_CHECK_DELAY, and a tick that ends without one, with wifiConnected
\* true, has (now - s) mod Modulus < FIRST_CHECK_DELAY.
C30_FirstCheckAfterDelay ==
    /\ (pc = "L_animate" /\ ticks = 0) =>
           /\ setupEnd = clock
           /\ elapsed(lastCheckTime, setupEnd) =
                  CHECK_INTERVAL - FIRST_CHECK_DELAY
    /\ (pc = "S_ping" /\ NoCheckYet) =>
           /\ wifiConnected
           /\ elapsed(setupEnd, clock) >= FIRST_CHECK_DELAY
    /\ (pc = "L_delay" /\ ~tk.late /\ NoCheckYet /\ wifiConnected) =>
           elapsed(setupEnd, clock) < FIRST_CHECK_DELAY

\* C30 amended: as stated, but the first site check is issued, and a tick
\* with wifiConnected true issues it, only while FIRST_CHECK_DELAY <=
\* (now - s) mod Modulus < Modulus - (CHECK_INTERVAL - FIRST_CHECK_DELAY):
\* during the last CHECK_INTERVAL - FIRST_CHECK_DELAY milliseconds of a cycle
\* of the counter since s the test does not pass.
C30_FirstCheck ==
    /\ (pc = "L_animate" /\ ticks = 0) =>
           /\ setupEnd = clock
           /\ elapsed(lastCheckTime, setupEnd) =
                  CHECK_INTERVAL - FIRST_CHECK_DELAY
    /\ (pc = "S_ping" /\ NoCheckYet) =>
           /\ wifiConnected
           /\ elapsed(setupEnd, clock) >= FIRST_CHECK_DELAY
           /\ elapsed(setupEnd, clock) < Window
    /\ (pc = "L_delay" /\ ~tk.late /\ NoCheckYet /\ wifiConnected) =>
           \/ elapsed(setupEnd, clock) < FIRST_CHECK_DELAY
           \/ elapsed(setupEnd, clock) >= Window

\* C30 witness: the first site check is issued exactly FIRST_CHECK_DELAY
\* after a setup() that returned at a timestamp below CHECK_INTERVAL -
\* FIRST_CHECK_DELAY, where the value stored in lastCheckTime had wrapped
\* below zero.
C30_Witness ==
    /\ pc = "S_ping"
    /\ NoCheckYet
    /\ elapsed(setupEnd, clock) = FIRST_CHECK_DELAY
    /\ setupEnd < CHECK_INTERVAL - FIRST_CHECK_DELAY
    /\ prevCheckTime > setupEnd
    /\ elapsed(prevCheckTime, clock) = CHECK_INTERVAL

\* C31: in every state of the optimized firmware, if the 2000 Hz alert tone
\* is on then siteIsUp is false or wifiConnected is false (the states are
\* those between the steps of setup() and loop(): where the program waits
\* and where one section of loop() hands over to the next).
C31_AlertHasCause ==
    buzzer = "alert" => (~siteIsUp \/ ~wifiConnected)

\* C31 witness: the alert sounds in a tick of loop() whose site check
\* returned down, with the WiFi connected after an earlier reconnection.
C31_Witness ==
    /\ buzzer = "alert"
    /\ wifiConnected
    /\ ~siteIsUp
    /\ tk.check = "down"
    /\ prevReconnect # lastReconnect

\* ------------------------------------------------------------ C32
\* C32: an accepted toggle from muted to unmuted, with siteIsUp false or
\* wifiConnected false, leaves the buzzer with the 1000 Hz confirmation tone
\* and not the alert tone; and in loop() the alert tone goes from off to on
\* only in a site check whose verdict is down or in a connectivity step that
\* detects a loss, so that after the unmuting it stays off until one of them.
C32_UnmuteKeepsAlertOff ==
    [][/\ (pc = "H_toggle" /\ isMuted /\ ~isMuted' /\
               (~siteIsUp \/ ~wifiConnected)) =>
             buzzer' = "confirm"
       /\ (pc \in LoopSteps /\ buzzer # "alert" /\ buzzer' = "alert") =>
             \/ pc = "S_ping" /\ ~siteIsUp'
             \/ pc = "W_check" /\ wifiConnected /\ ~wifiConnected']_vars

\* C32 witness: a tick that unmuted with the site recorded as down and the
\* WiFi connected, and made no site check, ends with the confirmation tone
\* run out and the alert tone off.
C32_Witness ==
    /\ pc = "L_delay"
    /\ tk.toggle = "unmuted"
    /\ ~siteIsUp
    /\ wifiConnected
    /\ tk.check = "none"
    /\ buzzer = "off"

\* ------------------------------------------------------------ C33
\* C33: every button request is eventually consumed: whenever the interrupt
\* has set muteToggleRequest, loop() eventually clears it, and the step that
\* clears it is handleMuteToggle, in the button section at the start of a
\* tick.
C33_RequestConsumed ==
    /\ muteToggleRequest ~> ~muteToggleRequest
    /\ [][(muteToggleRequest /\ ~muteToggleRequest') => pc = "H_toggle"]_vars

\* C33 witness: a request raised while the blocking HTTP call of a tick was
\* in progress has been consumed in the button section of the next tick.
C33_Witness ==
    /\ pc = "W_check"
    /\ tk.pending
    /\ tk.toggle # "none"
    /\ ~muteToggleRequest
    /\ lastResult # "none"
    /\ pressTimes # <<>>
    /\ elapsed(lastCheckTime, pressTimes[Len(pressTimes)]) < PING_DISPLAY_TIME

====
